---- MODULE Spec2Model ----
(***************************************************************************)
(* Tri-state cellular automaton simulator (tca.py).                        *)
(*                                                                         *)
(* The model has three layers:                                             *)
(*   - the pure helpers of class TCA (to_trinary, lookup_table and the     *)
(*     Python primitives they use: pow, str, int, reversed, zip, negative  *)
(*     list indices);                                                      *)
(*   - the TCA object: rule_number, rule_number_trinary, lookup, set by    *)
(*     __init__ and update_rule;                                           *)
(*   - a caller that owns a list `initial`, passes it to spacetime_field   *)
(*     and keeps the returned field.  Python lists are mutable objects, so *)
(*     lists live in a heap and are named by reference.                    *)
(***************************************************************************)
EXTENDS Integers, Sequences, FiniteSets

VARIABLES
    rule_number,          \* self.rule_number
    rule_number_trinary,  \* self.rule_number_trinary (a Python string)
    lookup,               \* self.lookup (a Python dict)
    heap,                 \* the list objects alive; a reference is an index
    initial,              \* caller's reference to its configuration (0: none)
    field,                \* value returned by the last spacetime_field call,
                          \* a list of references (<<>>: nothing returned)
    time_steps,           \* time_steps argument of the last call
    raised,               \* exception raised by the last operation
    op,                   \* the last operation executed
    writes                \* caller's item assignments since `initial` was made

vars == <<rule_number, rule_number_trinary, lookup, heap, initial, field,
          time_steps, raised, op, writes>>

facade == <<rule_number, rule_number_trinary, lookup>>

caller == <<heap, initial, field, time_steps, writes>>

-----------------------------------------------------------------------------
(* Bounds of the model                                                     *)

MaxLen == 3        \* longest configuration the caller builds

MaxSteps == 2      \* largest time_steps the caller passes

MaxWrites == 1     \* item assignments the caller makes to one list

BadCell == 3       \* the cell value outside {0,1,2} the caller may write

-----------------------------------------------------------------------------
(* Program constants                                                       *)

RULE_MAX == 19682

\* Arguments the caller passes as rule numbers in Spec: both out-of-range
\* neighbours of the valid interval, the three rules of the self tests and
\* one rule whose output depends on both cells of the neighbourhood
\* ((left + 2*self) mod 3).
RuleArgs == {0 - 1, 0, 4173, 9841, RULE_MAX, RULE_MAX + 1}

ValidRuleArgs == {r \in RuleArgs : r >= 0 /\ r <= RULE_MAX}

CellStates == {0, 1, 2}

-----------------------------------------------------------------------------
(* Python primitives                                                       *)

Min(a, b) == IF a < b THEN a ELSE b

RECURSIVE pow(_, _)
pow(b, e) == IF e = 0 THEN 1 ELSE b * pow(b, e - 1)

DigitChars == <<"0", "1", "2", "3", "4", "5", "6", "7", "8", "9">>

\* str(n) for an int n: its decimal numeral, as a sequence of characters.
RECURSIVE str(_)
str(n) ==
    IF n < 0 THEN <<"-">> \o str(0 - n)
    ELSE IF n < 10 THEN <<DigitChars[n + 1]>>
    ELSE str(n \div 10) \o <<DigitChars[(n % 10) + 1]>>

\* int(c) for a one-character decimal string c.
int(c) == (CHOOSE k \in 1..10 : DigitChars[k] = c) - 1

\* reversed() left out of lookup_table.
reversed_identity(s) == s

reversed(s) == [k \in 1..Len(s) |-> s[Len(s) + 1 - k]]

\* list[k] with Python's index rule: a negative k counts from the end.
PyIndex(list, k) == IF k < 0 THEN list[Len(list) + k + 1] ELSE list[k + 1]

-----------------------------------------------------------------------------
(* TCA.to_trinary                                                          *)

\* The guard of the ValueError; every argument of the model is an int.
rule_number_invalid(r) == r < 0 \/ r > RULE_MAX

\* The loop without `tmp -= factor*val`.
RECURSIVE to_trinary_loop_keeps_tmp(_, _, _)
to_trinary_loop_keeps_tmp(i, tmp, in_trinary) ==
    IF i < 0 THEN [in_trinary |-> in_trinary, tmp |-> tmp]
    ELSE LET factor == pow(3, i)
             val    == tmp \div factor
         IN  to_trinary_loop_keeps_tmp(i - 1, tmp, in_trinary \o str(val))

\* The loop `for i in range(8, -1, -1)` from exponent i on, with the values
\* of tmp and in_trinary at its start; yields both at its end.
RECURSIVE to_trinary_loop(_, _, _)
to_trinary_loop(i, tmp, in_trinary) ==
    IF i < 0 THEN [in_trinary |-> in_trinary, tmp |-> tmp]
    ELSE LET factor == pow(3, i)
             val    == tmp \div factor
         IN  to_trinary_loop(i - 1, tmp - factor * val, in_trinary \o str(val))

\* The value returned for an argument that passes the guard.
to_trinary(r) == to_trinary_loop(8, r, <<>>).in_trinary

-----------------------------------------------------------------------------
(* TCA.lookup_table                                                        *)

neighborhoods == << <<0, 0>>, <<0, 1>>, <<0, 2>>, <<1, 0>>, <<1, 1>>,
                    <<1, 2>>, <<2, 0>>, <<2, 1>>, <<2, 2>> >>

\* dict(zip(neighborhoods, map(int, reversed(trinary)))): zip stops at the
\* shorter of its arguments.
lookup_table(trinary) ==
    LET outs == reversed(trinary)
        n    == Min(Len(neighborhoods), Len(outs))
    IN  [nb \in {neighborhoods[k] : k \in 1..n} |->
            int(outs[CHOOSE k \in 1..n : neighborhoods[k] = nb])]

-----------------------------------------------------------------------------
(* TCA.__init__ and TCA.update_rule                                        *)

NoCaller ==
    /\ heap = <<>>
    /\ initial = 0
    /\ field = <<>>
    /\ time_steps = 0
    /\ writes = 0

\* tca = TCA(r) for an r that passes to_trinary's guard (for any other r the
\* constructor raises and no object exists).
TCA_init(r) ==
    /\ rule_number = r
    /\ rule_number_trinary = to_trinary(r)
    /\ lookup = lookup_table(to_trinary(r))
    /\ raised = "none"
    /\ op = "__init__"
    /\ NoCaller

\* tca.update_rule(r): rule_number is assigned first, then to_trinary either
\* raises (the two remaining assignments are skipped) or returns.
update_rule(r) ==
    /\ rule_number' = r
    /\ IF rule_number_invalid(r)
       THEN /\ raised' = "InvalidRuleNumber"
            /\ UNCHANGED <<rule_number_trinary, lookup>>
       ELSE /\ raised' = "none"
            /\ rule_number_trinary' = to_trinary(r)
            /\ lookup' = lookup_table(to_trinary(r))
    /\ op' = "update_rule"
    /\ UNCHANGED caller

UpdateRule == \E r \in RuleArgs : update_rule(r)

-----------------------------------------------------------------------------
(* The facade alone: every constructible automaton, then any sequence of   *)
(* update_rule calls with the arguments of RuleArgs.                       *)

InitFacade == \E r \in 0..RULE_MAX : TCA_init(r)

NextFacade == UpdateRule

SpecFacade == InitFacade /\ [][NextFacade]_vars

-----------------------------------------------------------------------------
(* TCA.spacetime_field                                                     *)

\* The check `if time_steps < 0` left out.
time_steps_never_invalid(ts) == FALSE

\* The guard of the first ValueError (int(time_steps) is the identity on the
\* ints the caller passes and never raises).
time_steps_invalid(ts) == ts < 0

\* The guard of the second ValueError: some element is not in [0,1,2].
initial_condition_invalid(initial_condition) ==
    \E k \in 1..Len(initial_condition) : initial_condition[k] \notin CellStates

\* The pair (self, right neighbour) instead of (left neighbour, self).
right_neighborhood(current_configuration, i) ==
    <<PyIndex(current_configuration, i),
      PyIndex(current_configuration, (i + 1) % Len(current_configuration))>>

\* (current_configuration[(i-1)], current_configuration[i]) for the 0-based
\* site i; for i = 0 the index -1 is the last site.
neighborhood(current_configuration, i) ==
    <<PyIndex(current_configuration, i - 1), PyIndex(current_configuration, i)>>

\* One pass of the inner loop `for i in range(length)`.
new_configuration(table, current_configuration) ==
    [k \in 1..Len(current_configuration) |->
        table[neighborhood(current_configuration, k - 1)]]

\* The loop appends the configuration it started the step with.
RECURSIVE evolve_appends_current(_, _, _)
evolve_appends_current(table, current_configuration, steps) ==
    IF steps <= 0 THEN <<>>
    ELSE <<current_configuration>> \o
         evolve_appends_current(table,
             new_configuration(table, current_configuration), steps - 1)

\* The loop runs once more than asked: range(time_steps + 1).
RECURSIVE evolve_one_more(_, _, _)
evolve_one_more(table, current_configuration, steps) ==
    IF steps < 0 THEN <<>>
    ELSE LET new == new_configuration(table, current_configuration)
         IN  <<new>> \o evolve_one_more(table, new, steps - 1)

\* The outer loop `for t in range(time_steps)`: the configurations it appends
\* to spacetime_field, in order, with `steps` iterations left to run.
RECURSIVE evolve(_, _, _)
evolve(table, current_configuration, steps) ==
    IF steps <= 0 THEN <<>>
    ELSE LET new == new_configuration(table, current_configuration)
         IN  <<new>> \o evolve(table, new, steps - 1)

\* field = tca.spacetime_field(initial, ts).  On success the returned list
\* starts with the caller's own list object ([initial_condition]), followed
\* by one fresh list per step; the copy made for current_configuration is
\* unreachable once the call returns.  The caller drops the previous field,
\* so the heap keeps the caller's list and the new rows only.
spacetime_field(ts) ==
    /\ initial # 0
    /\ LET initial_condition == heap[initial]
           rows == evolve(lookup, initial_condition, ts)
       IN  IF time_steps_invalid(ts)
           THEN /\ raised' = "InvalidStepCount"
                /\ field' = <<>>
                /\ heap' = <<initial_condition>>
           ELSE IF initial_condition_invalid(initial_condition)
           THEN /\ raised' = "InvalidCellState"
                /\ field' = <<>>
                /\ heap' = <<initial_condition>>
           ELSE /\ raised' = "none"
                /\ heap' = <<initial_condition>> \o rows
                /\ field' = <<initial>> \o [k \in 1..Len(rows) |-> initial + k]
    /\ time_steps' = ts
    /\ op' = "spacetime_field"
    /\ UNCHANGED <<facade, initial, writes>>

SpacetimeField == \E ts \in (0 - 1)..MaxSteps : spacetime_field(ts)

-----------------------------------------------------------------------------
(* The caller                                                              *)

\* initial = random_string(length): a fresh list of `length` cells in 0..2.
random_string(length) ==
    /\ \E out \in [1..length -> CellStates] : heap' = <<out>>
    /\ initial' = 1
    /\ raised' = "none"
    /\ op' = "random_string"
    /\ UNCHANGED <<facade, field, time_steps, writes>>

\* The caller makes its configuration once, as the self tests do.
RandomString ==
    /\ initial = 0
    /\ \E length \in 0..MaxLen : random_string(length)

\* initial[i] = v, an item assignment to the caller's own list object.
WriteInitial ==
    /\ initial # 0
    /\ writes < MaxWrites
    /\ \E i \in 1..Len(heap[initial]), v \in CellStates \cup {BadCell} :
          heap' = [heap EXCEPT ![initial][i] = v]
    /\ writes' = writes + 1
    /\ op' = "write"
    /\ UNCHANGED <<facade, initial, field, time_steps, raised>>

-----------------------------------------------------------------------------
(* The whole program: an automaton built for one of the sample rules and   *)
(* re-ruled any number of times, then a caller that makes a configuration  *)
(* and interleaves item assignments to it with spacetime_field calls.      *)

Init == \E r \in ValidRuleArgs : TCA_init(r)

\* The rule is chosen before the caller makes its configuration.
ConfigureRule == initial = 0 /\ UpdateRule

Next == ConfigureRule \/ RandomString \/ SpacetimeField \/ WriteInitial

Spec == Init /\ [][Next]_vars

\* The configuration a reference names, and the contents of a returned field.
Deref(ref) == heap[ref]

Contents(refs) == [t \in 1..Len(refs) |-> heap[refs[t]]]

-----------------------------------------------------------------------------
(* Helpers of the properties                                               *)

Returned == op = "spacetime_field" /\ raised = "none"

AllNeighborhoods == {<<l, s>> : l \in CellStates, s \in CellStates}

\* The number a most-significant-first base-3 numeral denotes.
RECURSIVE TrinaryValue(_)
TrinaryValue(s) ==
    IF s = <<>> THEN 0
    ELSE 3 * TrinaryValue(SubSeq(s, 1, Len(s) - 1)) + int(s[Len(s)])

-----------------------------------------------------------------------------
(* Properties of the facade (checked under SpecFacade)                     *)

\* C1: an update_rule call that raises leaves rule_number,
\* rule_number_trinary and lookup as they were before the call.
C1_FailedUpdateLeavesFacade ==
    [][(op' = "update_rule" /\ raised' = "InvalidRuleNumber")
           => UNCHANGED facade]_vars

\* C3: the table of a valid rule number r is defined on exactly the nine
\* neighbourhoods, and maps (l, s) to the digit at position 8 - (3l + s) of
\* the trinary string, which is (r div 3^(3l+s)) mod 3.
C3_LookupIsReversedDigits ==
    ~rule_number_invalid(rule_number) =>
        /\ DOMAIN lookup = AllNeighborhoods
        /\ \A l \in CellStates, s \in CellStates :
              /\ lookup[<<l, s>>] = int(rule_number_trinary[9 - (3 * l + s)])
              /\ lookup[<<l, s>>] = (rule_number \div pow(3, 3 * l + s)) % 3

C3_Witness ==
    /\ rule_number = 4173
    /\ op = "update_rule"
    /\ raised = "none"
    /\ lookup[<<0, 1>>] = 2
    /\ lookup[<<1, 0>>] = 1
    /\ lookup[<<2, 2>>] = 0

\* C4: the trinary string of a valid rule number r has exactly nine
\* characters, each one of "0", "1", "2", denotes r most-significant digit
\* first, and the loop that builds it ends with remainder 0.
C4_TrinaryIsBase3 ==
    ~rule_number_invalid(rule_number) =>
        /\ Len(rule_number_trinary) = 9
        /\ \A k \in 1..Len(rule_number_trinary) :
              rule_number_trinary[k] \in {"0", "1", "2"}
        /\ TrinaryValue(rule_number_trinary) = rule_number
        /\ to_trinary_loop(8, rule_number, <<>>).tmp = 0

C4_Witness ==
    /\ rule_number = 5
    /\ raised = "none"
    /\ rule_number_trinary = <<"0", "0", "0", "0", "0", "0", "0", "1", "2">>

\* C9: the derived state always matches the stored rule number.
C9_DerivedMatchesRule ==
    /\ ~rule_number_invalid(rule_number)
    /\ rule_number_trinary = to_trinary(rule_number)
    /\ lookup = lookup_table(rule_number_trinary)

\* C10: the stored rule number is always within 0..19682.
C10_RuleNumberInRange == 0 <= rule_number /\ rule_number <= RULE_MAX

-----------------------------------------------------------------------------
(* Properties of the evolution (checked under Spec)                        *)

\* C2: in a returned field every row after the first is the image of the
\* row before it under the table, site i reading sites (i-1) mod L and i.
C2_RowsFollowTable ==
    Returned =>
        LET rows == Contents(field)
            L    == Len(Deref(initial))
        IN  \A t \in 1..(Len(rows) - 1) :
                /\ Len(rows[t + 1]) = L
                /\ \A i \in 0..(L - 1) :
                      rows[t + 1][i + 1] =
                          lookup[<<rows[t][((i - 1) % L) + 1], rows[t][i + 1]>>]

C2_Witness ==
    /\ Returned
    /\ rule_number = 4173
    /\ time_steps = 2
    /\ Deref(initial) = <<0, 0, 1>>
    /\ Deref(field[2]) = <<1, 0, 2>>

\* C5: a call with time_steps >= 0 on cells in {0,1,2} returns a field of
\* time_steps + 1 rows, each as long as the configuration passed, and the
\* first row equals the configuration passed.
C5_FieldShape ==
    [][(/\ op' = "spacetime_field"
        /\ time_steps' >= 0
        /\ \A k \in 1..Len(Deref(initial)) : Deref(initial)[k] \in CellStates)
       => /\ raised' = "none"
          /\ Len(field') = time_steps' + 1
          /\ \A t \in 1..Len(field') :
                Len(heap'[field'[t]]) = Len(Deref(initial))
          /\ heap'[field'[1]] = Deref(initial)]_vars

C5_Witness ==
    /\ Returned
    /\ time_steps = 2
    /\ Len(field) = 3
    /\ Len(Deref(initial)) = 3
    /\ \A t \in 1..3 : Len(Deref(field[t])) = 3

\* C6: under rule c * 9841 every row of a returned field after the first
\* holds c at every site.
C6_ConstantRulesAbsorb ==
    (Returned /\ rule_number \in {0, 9841, 19682}) =>
        \A t \in 2..Len(field) :
            \A i \in 1..Len(Deref(field[t])) :
                Deref(field[t])[i] = rule_number \div 9841

C6_Witness ==
    /\ Returned
    /\ rule_number = 9841
    /\ time_steps = 2
    /\ Deref(initial) = <<0, 2, 0>>
    /\ Deref(field[2]) = <<1, 1, 1>>
    /\ Deref(field[3]) = <<1, 1, 1>>

\* C7: a call on a non-empty configuration leaves the contents of the
\* caller's configuration as they were, and no row of the returned field is
\* the caller's list object.
C7_NoMutationNoAlias ==
    [][(op' = "spacetime_field" /\ Len(Deref(initial)) >= 1)
          => /\ heap'[initial'] = Deref(initial)
             /\ \A t \in 1..Len(field') : field'[t] # initial']_vars

\* C8: a call with a negative time_steps raises InvalidStepCount, a call on
\* a configuration with a cell outside {0,1,2} (and time_steps >= 0, the
\* check that comes first) raises InvalidCellState; neither returns a field
\* nor changes rule_number, rule_number_trinary or lookup.
C8_InvalidInputRejected ==
    [][op' = "spacetime_field" =>
          /\ time_steps' < 0 =>
                /\ raised' = "InvalidStepCount"
                /\ field' = <<>>
                /\ UNCHANGED facade
          /\ (/\ time_steps' >= 0
              /\ \E k \in 1..Len(Deref(initial)) :
                    Deref(initial)[k] \notin CellStates) =>
                /\ raised' = "InvalidCellState"
                /\ field' = <<>>
                /\ UNCHANGED facade]_vars

C8_Witness ==
    /\ op = "spacetime_field"
    /\ raised = "InvalidCellState"
    /\ time_steps = 2
    /\ field = <<>>
    /\ \E k \in 1..Len(Deref(initial)) : Deref(initial)[k] = BadCell

====
